---- MODULE Spec2Model ----
(***************************************************************************)
(* The opcode handlers of lib/opFns.js as a state machine over one frame   *)
(* (runState), the state manager entries of the frame's own address, the   *)
(* child call in flight and the callbacks that are still outstanding.      *)
(***************************************************************************)
EXTENDS Integers, Sequences, FiniteSets, TLC

\* ---------------------------------------------------------------- fees
\* The fee schedule (fees.<name>.v); opFns.js reads it from ethereum-common.
callStipend == 2300
callValueTransferGas == 9000
callNewAccountGas == 25000
sstoreSetGas == 20000
sstoreResetGas == 5000
sstoreRefundGas == 15000
memoryGas == 3
quadCoeffDiv == 512
stackLimit == 1024
sha3WordGas == 6
copyGas == 3
logTopicGas == 375
logDataGas == 8
suicideRefundGas == 24000
\* MAX_INT is 2^53 - 1 in the source; TLC's integers are 32 bits wide, so the
\* model keeps the comparison and scales the limit. Every offset and length
\* the model draws is far below either value.
MAX_INT == 1073741823

\* ---------------------------------------------------------------- bounds
\* Number of instructions the dispatcher hands to handlers in one behaviour.
MaxSteps == 1

\* ---------------------------------------------------------------- values
\* An optional value (undefined / absent in the source) is a sequence of
\* length 0 or 1.
None == <<>>
Some(x) == <<x>>

\* Addresses: the frame's own address, the frame's caller, the popped call
\* target and the address a successful CREATE reports.
SelfAddr == 11
CallerAddr == 12
TargetAddr == 13
NewAddr == 14

\* Error values handed to the completion callback.
NoErr == "none"
OUT_OF_GAS == "OUT_OF_GAS"
INTERNAL == "INTERNAL"
INVALID_JUMP == "INVALID_JUMP"
STACK_UNDERFLOW == "STACK_UNDERFLOW"
\* The exceptions of JavaScript itself, which are no VmError: the assertion
\* of BN.toNumber on a number of more than 53 bits, and a ReferenceError.
NOT_SAFE_INTEGER == "Number can only safely store up to 53 bits"
REFERENCE_ERROR == "ReferenceError"

\* The accounts of the model.
Addrs == {SelfAddr, CallerAddr, TargetAddr, NewAddr}

\* A memory cell no store has defined (a hole of the JS array, or a copy of
\* an index past the end of the source).
Undefined == -1

Min(a, b) == IF a < b THEN a ELSE b
Max(a, b) == IF a > b THEN a ELSE b
\* Math.ceil(n / 32)
CeilDiv32(n) == (n + 31) \div 32
\* BN.div truncates toward zero; \div of TLA+ rounds down.
BNdiv(a, b) == IF a >= 0 THEN a \div b ELSE 0 - ((0 - a) \div b)

VARIABLES
  gasLeft,          \* runState.gasLeft
  gasRefund,        \* runState.gasRefund
  memory,           \* runState.memory
  memoryWordCount,  \* runState.memoryWordCount
  highestMemCost,   \* runState.highestMemCost
  stack,            \* runState.stack
  logs,             \* runState.logs
  contract,         \* runState.contract: [balance, nonce]
  depth,            \* runState.depth
  cache,            \* stateManager.cache entry of runState.address
  storage,          \* stateManager storage of runState.address: key -> bytes
  status,           \* the dispatcher: "idle" (between handlers), "busy", "trapped"
  inflight,         \* the call given to the child runner, not yet folded back
  pendingEmpty,     \* the accountIsEmpty callback of CALL while it is deferred
  signals,          \* completion signals of the handler started last
  obs,              \* what the handler started last was given and did
  env,              \* the frame's fixed fields: address, caller, origin,
                    \* callValue, gasPrice, block
  steps,            \* handlers started so far
  programCounter,   \* runState.programCounter
  validJumps,       \* runState.validJumps
  stopped,          \* runState.stopped
  returnValue,      \* runState.returnValue
  selfdestruct,     \* runState.selfdestruct: address -> recipient, one object
                    \* for all the frames of a transaction
  balances,         \* stateManager: the balances of the other accounts
  accessed,         \* one more than the highest memory index read or written
  sdRefunds         \* address -> times suicideRefundGas was added for it

vars == <<gasLeft, gasRefund, memory, memoryWordCount, highestMemCost, stack,
          logs, contract, depth, cache, storage, status, inflight,
          pendingEmpty, signals, obs, env, steps, programCounter, validJumps,
          stopped, returnValue, selfdestruct, balances, accessed, sdRefunds>>

\* The variables as one record, so that the handlers are functions of it.
\* trap is the exception in flight inside synchronous code.
Cur ==
  [gasLeft |-> gasLeft, gasRefund |-> gasRefund, memory |-> memory,
   memoryWordCount |-> memoryWordCount, highestMemCost |-> highestMemCost,
   stack |-> stack, logs |-> logs, contract |-> contract, depth |-> depth,
   cache |-> cache, storage |-> storage, status |-> status,
   inflight |-> inflight, pendingEmpty |-> pendingEmpty, signals |-> signals,
   obs |-> obs, env |-> env, programCounter |-> programCounter,
   validJumps |-> validJumps, stopped |-> stopped, returnValue |-> returnValue,
   selfdestruct |-> selfdestruct, balances |-> balances, accessed |-> accessed,
   sdRefunds |-> sdRefunds, trap |-> NoErr]

Commit(s) ==
  /\ gasLeft' = s.gasLeft
  /\ gasRefund' = s.gasRefund
  /\ memory' = s.memory
  /\ memoryWordCount' = s.memoryWordCount
  /\ highestMemCost' = s.highestMemCost
  /\ stack' = s.stack
  /\ logs' = s.logs
  /\ contract' = s.contract
  /\ depth' = s.depth
  /\ cache' = s.cache
  /\ storage' = s.storage
  /\ status' = s.status
  /\ inflight' = s.inflight
  /\ pendingEmpty' = s.pendingEmpty
  /\ signals' = s.signals
  /\ obs' = s.obs
  /\ env' = s.env
  /\ programCounter' = s.programCounter
  /\ validJumps' = s.validJumps
  /\ stopped' = s.stopped
  /\ returnValue' = s.returnValue
  /\ selfdestruct' = s.selfdestruct
  /\ balances' = s.balances
  /\ accessed' = s.accessed
  /\ sdRefunds' = s.sdRefunds

\* ---------------------------------------------------------------- dispatcher
\* The handler's completion callback (done / cb). The first signal of a
\* handler returns control to the dispatcher: an error aborts the frame, a
\* result is pushed. Later signals of the same handler are only recorded.
Done(s, err, result) ==
  LET first == s.signals = <<>>
      s1 == [s EXCEPT !.signals = Append(@, [kind |-> "cb", err |-> err, result |-> result])]
  IN  IF ~first THEN s1
      ELSE IF err # NoErr THEN [s1 EXCEPT !.status = "trapped"]
      ELSE [s1 EXCEPT !.status = "idle", !.stack = @ \o result]

\* An exception that leaves the handler synchronously reaches the dispatcher.
Thrown(s) ==
  LET first == s.signals = <<>>
      s1 == [s EXCEPT !.signals = Append(@, [kind |-> "throw", err |-> s.trap, result |-> None]),
                      !.trap = NoErr]
  IN  IF first THEN [s1 EXCEPT !.status = "trapped"] ELSE s1

\* A synchronous handler returns: the dispatcher pushes what it returned, if
\* anything, and goes on.
Returned(s, result) ==
  [s EXCEPT !.signals = Append(@, [kind |-> "return", err |-> NoErr, result |-> result]),
            !.status = "idle",
            !.stack = @ \o result]

\* bn.toNumber(): an assertion fails for a number above 2^53 - 1.
toNumber(s, x) == IF s.trap = NoErr /\ x > MAX_INT THEN [s EXCEPT !.trap = NOT_SAFE_INTEGER] ELSE s

\* ---------------------------------------------------------------- gas, memory
trap(s, err) == [s EXCEPT !.trap = err]

subGas(s, amount) ==
  IF s.trap # NoErr THEN s
  ELSE LET s1 == [s EXCEPT !.gasLeft = @ - amount]
       IN  IF s1.gasLeft < 0 THEN trap(s1, OUT_OF_GAS) ELSE s1

\* Mutant of subMemUsage: the word count and the cost follow the range
\* touched last, also when it is smaller.
subMemUsageFollows(s, offset, length) ==
  IF s.trap # NoErr \/ length = 0 THEN s
  ELSE IF offset > MAX_INT \/ length > MAX_INT THEN trap(s, OUT_OF_GAS)
  ELSE LET newMemoryWordCount == CeilDiv32(offset + length)
           cost == newMemoryWordCount * memoryGas
                   + (newMemoryWordCount * newMemoryWordCount) \div quadCoeffDiv
           s1 == [s EXCEPT !.memoryWordCount = newMemoryWordCount,
                           !.highestMemCost = cost]
       IN  IF cost > s.highestMemCost
           THEN [subGas(s1, cost - s.highestMemCost)
                   EXCEPT !.obs.memBill = @ + (cost - s.highestMemCost)]
           ELSE s1

\* The memory bill is also added to obs.memBill.
subMemUsage(s, offset, length) ==
  IF s.trap # NoErr \/ length = 0 THEN s
  ELSE IF offset > MAX_INT \/ length > MAX_INT THEN trap(s, OUT_OF_GAS)
  ELSE LET newMemoryWordCount == CeilDiv32(offset + length)
       IN  IF newMemoryWordCount <= s.memoryWordCount THEN s
           ELSE LET s1 == [s EXCEPT !.memoryWordCount = newMemoryWordCount]
                    cost == newMemoryWordCount * memoryGas
                            + (newMemoryWordCount * newMemoryWordCount) \div quadCoeffDiv
                IN  IF cost > s.highestMemCost
                    THEN LET s2 == subGas(s1, cost - s.highestMemCost)
                         IN  IF s2.trap # NoErr
                             THEN [s2 EXCEPT !.obs.memBill = @ + (cost - s.highestMemCost)]
                             ELSE [s2 EXCEPT !.highestMemCost = cost,
                                             !.obs.memBill = @ + (cost - s.highestMemCost)]
                    ELSE s1

\* Buffer(...) of array cells: an undefined cell becomes 0.
ToByte(x) == IF x = Undefined THEN 0 ELSE x

\* The bytes memLoad returns: the slice, filled with zeros to length.
memLoaded(s, offset, length) ==
  [i \in 1..length |->
     IF offset + i <= Len(s.memory) THEN ToByte(s.memory[offset + i]) ELSE 0]

\* The handler has read or written memory[offset .. offset + length - 1].
Touch(s, offset, length) ==
  IF s.trap = NoErr /\ length > 0
  THEN [s EXCEPT !.accessed = Max(@, offset + length)]
  ELSE s

\* memLoad's effect on the frame.
memLoad(s, offset, length) == Touch(subMemUsage(s, offset, length), offset, length)

\* val[i] of a Buffer, for a 0-based index: undefined past its end.
At(val, i) == IF i < Len(val) THEN val[i + 1] ELSE Undefined

\* runState.memory[index] = v for a 0-based index, as a JS array assignment.
ArrayPut(mem, index, v) ==
  [i \in 1..(IF index + 1 > Len(mem) THEN index + 1 ELSE Len(mem)) |->
     IF i = index + 1 THEN v
     ELSE IF i <= Len(mem) THEN mem[i] ELSE Undefined]

\* The loop of memStore: runState.memory[offset + i] = val[valOffset + i].
RECURSIVE storeLoop(_, _, _, _, _)
storeLoop(mem, offset, val, valOffset, n) ==
  IF n = 0 THEN mem
  ELSE ArrayPut(storeLoop(mem, offset, val, valOffset, n - 1),
                offset + n - 1, At(val, valOffset + n - 1))

\* skipSubMem is "undefined" where the caller leaves it out, or "false".
memStore(s, offset, val, valOffset, length, skipSubMem) ==
  LET s1 == IF skipSubMem # "false" THEN subMemUsage(s, offset, length) ELSE s
  IN  IF s1.trap # NoErr THEN s1
      ELSE Touch([s1 EXCEPT !.memory = storeLoop(@, offset, val, valOffset, length)],
                 offset, length)

\* ---------------------------------------------------------------- call set-up
\* No call in flight. While a handler builds a call, inflight holds its
\* callOptions and localOpts (phase "setup"); phase "child" is the child
\* runner working, phase "refresh" the getAccount after a child that did
\* not trap; phase "exists" is CALL waiting for stateManager.exists.
NoCall ==
  [phase |-> "none", gasLimit |-> None, value |-> 0, to |-> None,
   caller |-> None, delegatecall |-> FALSE, data |-> <<>>, origin |-> None,
   gasPrice |-> None, block |-> None, populateCache |-> None,
   selfdestruct |-> None,
   depth |-> 0, inOffset |-> 0, inLength |-> 0, outOffset |-> 0,
   outLength |-> 0, results |-> None]

\* The options and localOpts objects the four handlers set up.
NewCall(gasLimit, value, to, caller, delegatecall, inOffset, inLength, outOffset, outLength) ==
  [NoCall EXCEPT !.phase = "setup", !.gasLimit = gasLimit, !.value = value,
                 !.to = to, !.caller = caller, !.delegatecall = delegatecall,
                 !.inOffset = inOffset, !.inLength = inLength,
                 !.outOffset = outOffset, !.outLength = outLength]

checkCallMemCost(s) ==
  LET c == s.inflight
      s1 == memLoad(s, c.inOffset, c.inLength)
      s2 == IF s1.trap = NoErr
            THEN [s1 EXCEPT !.inflight.data = memLoaded(s1, c.inOffset, c.inLength)]
            ELSE s1
      s3 == IF c.outLength # 0 THEN subMemUsage(s2, c.outOffset, c.outLength) ELSE s2
  IN  IF s3.trap # NoErr THEN s3
      ELSE IF c.gasLimit = None THEN [s3 EXCEPT !.inflight.gasLimit = Some(s3.gasLeft)]
      ELSE s3

\* obs keeps the gas the cap was computed from and the limit that results.
checkOutOfGas(s) ==
  IF s.trap # NoErr THEN s
  ELSE LET gasAllowed == s.gasLeft - BNdiv(s.gasLeft, 64)
           limit == IF s.inflight.gasLimit[1] > gasAllowed
                    THEN gasAllowed ELSE s.inflight.gasLimit[1]
       IN  [s EXCEPT !.inflight.gasLimit = Some(limit),
                     !.obs.capGas = Some(s.gasLeft),
                     !.obs.forwarded = Some(limit)]

\* Mutant of addStipend: the stipend is credited whatever the value.
addStipendAlways(s) ==
  [s EXCEPT !.gasLeft = @ + callStipend,
            !.inflight.gasLimit = Some(@[1] + callStipend),
            !.obs.stipend = @ + callStipend]

\* runState.gasLeft.iadd(callStipend); options.gasLimit.iadd(callStipend)
addStipend(s) ==
  IF s.inflight.value # 0
  THEN [s EXCEPT !.gasLeft = @ + callStipend,
                 !.inflight.gasLimit = Some(@[1] + callStipend),
                 !.obs.stipend = @ + callStipend]
  ELSE s

\* Mutant of makeCall: the caller is the frame's address, whatever the
\* handler had set.
makeCallOwnCaller(s) ==
  LET c0 == s.inflight
      c == [c0 EXCEPT !.caller = Some(s.env.address),
                      !.origin = Some(s.env.origin),
                      !.gasPrice = Some(s.env.gasPrice),
                      !.block = Some(s.env.block),
                      !.populateCache = Some(FALSE),
                      !.selfdestruct = Some(s.selfdestruct),
                      !.depth = s.depth + 1]
  IN  IF s.depth >= stackLimit
         \/ (c.delegatecall # TRUE /\ s.contract.balance < c.value)
      THEN Done([s EXCEPT !.stack = Append(@, 0), !.inflight = NoCall,
                          !.obs.guard = TRUE],
                NoErr, None)
      ELSE LET contract1 == IF c.to = None
                            THEN [s.contract EXCEPT !.nonce = @ + 1]
                            ELSE s.contract
           IN  [s EXCEPT !.contract = contract1,
                         !.cache = contract1,
                         !.obs.cachePuts = @ + 1,
                         !.obs.invoked = TRUE,
                         !.obs.childGas = c.gasLimit,
                         !.inflight = [c EXCEPT !.phase = "child"]]

\* Mutant of makeCall: the guard does not look at the depth.
makeCallNoDepth(s) ==
  LET c0 == s.inflight
      c == [c0 EXCEPT !.caller = IF c0.caller = None THEN Some(s.env.address) ELSE @,
                      !.origin = Some(s.env.origin),
                      !.gasPrice = Some(s.env.gasPrice),
                      !.block = Some(s.env.block),
                      !.populateCache = Some(FALSE),
                      !.selfdestruct = Some(s.selfdestruct),
                      !.depth = s.depth + 1]
  IN  IF c.delegatecall # TRUE /\ s.contract.balance < c.value
      THEN Done([s EXCEPT !.stack = Append(@, 0), !.inflight = NoCall,
                          !.obs.guard = TRUE],
                NoErr, None)
      ELSE LET contract1 == IF c.to = None
                            THEN [s.contract EXCEPT !.nonce = @ + 1]
                            ELSE s.contract
           IN  [s EXCEPT !.contract = contract1,
                         !.cache = contract1,
                         !.obs.cachePuts = @ + 1,
                         !.obs.invoked = TRUE,
                         !.obs.childGas = c.gasLimit,
                         !.inflight = [c EXCEPT !.phase = "child"]]

\* makeCall up to the point where the child runner has the call.
makeCall(s) ==
  LET c0 == s.inflight
      c == [c0 EXCEPT !.caller = IF c0.caller = None THEN Some(s.env.address) ELSE @,
                      !.origin = Some(s.env.origin),
                      !.gasPrice = Some(s.env.gasPrice),
                      !.block = Some(s.env.block),
                      !.populateCache = Some(FALSE),
                      !.selfdestruct = Some(s.selfdestruct),
                      !.depth = s.depth + 1]
  IN  IF s.depth >= stackLimit
         \/ (c.delegatecall # TRUE /\ s.contract.balance < c.value)
      THEN Done([s EXCEPT !.stack = Append(@, 0), !.inflight = NoCall,
                          !.obs.guard = TRUE],
                NoErr, None)
      ELSE LET contract1 == IF c.to = None
                            THEN [s.contract EXCEPT !.nonce = @ + 1]
                            ELSE s.contract
           IN  [s EXCEPT !.contract = contract1,
                         !.cache = contract1,
                         !.obs.cachePuts = @ + 1,
                         !.obs.invoked = TRUE,
                         !.obs.childGas = c.gasLimit,
                         !.inflight = [c EXCEPT !.phase = "child"]]

\* ---------------------------------------------------------------- child results
\* results.vm.exception: 0 when the child trapped, 1 when it did not.
Exception(r) == IF r.exceptionError THEN 0 ELSE 1

\* The loop that saves the child's return data to memory.
RECURSIVE saveReturn(_, _, _, _)
saveReturn(mem, outOffset, ret, n) ==
  IF n = 0 THEN mem
  ELSE ArrayPut(saveReturn(mem, outOffset, ret, n - 1), outOffset + n - 1, ret[n])

\* Mutant of parseCallResults: the logs of a child that trapped are dropped.
parseCallResultsDropsLogs(s, err, r) ==
  LET c == s.inflight
      s1 == [s EXCEPT !.logs = IF r.exceptionError THEN @ ELSE @ \o r.logs,
                      !.gasRefund = @ + r.gasRefund,
                      !.gasLeft = @ - r.gasUsed,
                      !.obs.results = Some(r)]
  IN  IF ~r.exceptionError
      THEN [s1 EXCEPT !.memory = saveReturn(@, c.outOffset, r.return,
                                            Min(c.outLength, Len(r.return))),
                      !.accessed = IF Min(c.outLength, Len(r.return)) > 0
                                   THEN Max(@, c.outOffset + Min(c.outLength, Len(r.return)))
                                   ELSE @,
                      !.obs.smCalls = @ + 1,
                      !.inflight = [c EXCEPT !.phase = "refresh", !.results = Some(r)]]
      ELSE LET s2 == IF r.vmCreatedAddress # None
                     THEN [s1 EXCEPT !.contract.nonce = @ - 1]
                     ELSE s1
           IN  Done([s2 EXCEPT !.inflight = NoCall], err, Some(Exception(r)))

\* Mutant of parseCallResults: the return data is saved whether or not the
\* child trapped.
parseCallResultsAlwaysSaves(s, err, r) ==
  LET c == s.inflight
      s1 == [s EXCEPT !.logs = @ \o r.logs,
                      !.gasRefund = @ + r.gasRefund,
                      !.gasLeft = @ - r.gasUsed,
                      !.memory = saveReturn(@, c.outOffset, r.return,
                                            Min(c.outLength, Len(r.return))),
                      !.obs.results = Some(r)]
  IN  IF ~r.exceptionError
      THEN [s1 EXCEPT !.obs.smCalls = @ + 1,
                      !.inflight = [c EXCEPT !.phase = "refresh", !.results = Some(r)]]
      ELSE LET s2 == IF r.vmCreatedAddress # None
                     THEN [s1 EXCEPT !.contract.nonce = @ - 1]
                     ELSE s1
           IN  Done([s2 EXCEPT !.inflight = NoCall], err, Some(Exception(r)))

\* parseCallResults up to its callback or to the getAccount it waits for.
parseCallResults(s, err, r) ==
  LET c == s.inflight
      s1 == [s EXCEPT !.logs = @ \o r.logs,
                      !.gasRefund = @ + r.gasRefund,
                      !.gasLeft = @ - r.gasUsed,
                      !.obs.results = Some(r)]
  IN  IF ~r.exceptionError
      THEN [s1 EXCEPT !.memory = saveReturn(@, c.outOffset, r.return,
                                            Min(c.outLength, Len(r.return))),
                      !.accessed = IF Min(c.outLength, Len(r.return)) > 0
                                   THEN Max(@, c.outOffset + Min(c.outLength, Len(r.return)))
                                   ELSE @,
                      !.obs.smCalls = @ + 1,
                      !.inflight = [c EXCEPT !.phase = "refresh", !.results = Some(r)]]
      ELSE LET s2 == IF r.vmCreatedAddress # None
                     THEN [s1 EXCEPT !.contract.nonce = @ - 1]
                     ELSE s1
           IN  Done([s2 EXCEPT !.inflight = NoCall], err, Some(Exception(r)))

\* The callback of the getAccount in parseCallResults.
refreshContract(s, err, account) ==
  LET r == s.inflight.results[1]
      s1 == [s EXCEPT !.contract = account, !.inflight = NoCall]
  IN  IF r.createdAddress # None
      THEN Done(s1, err, r.createdAddress)
      ELSE Done(s1, err, Some(Exception(r)))

\* ---------------------------------------------------------------- handlers
\* The dispatcher hands an instruction to its handler.
\* obs: the instruction and its operands (value, the requested gas limit,
\* args), the frame as the handler found it (gas0, refund0, nonce0,
\* balance0, stackLen0), what the handler has done so far, and what the state
\* manager answered to CALL's exists and accountIsEmpty (answer).
NewObs(op, value, gasReq, args, gas0, refund0, contract0, stackLen0) ==
  [op |-> op, value |-> value, gasReq |-> gasReq, args |-> args,
   gas0 |-> gas0, refund0 |-> refund0, nonce0 |-> contract0.nonce,
   balance0 |-> contract0.balance, stackLen0 |-> stackLen0,
   memBill |-> 0, surcharge |-> 0, stipend |-> 0,
   capGas |-> None, forwarded |-> None, childGas |-> None, guard |-> FALSE,
   invoked |-> FALSE, smCalls |-> 0, cachePuts |-> 0, results |-> None,
   found |-> None, puts |-> <<>>, answer |-> None]

Begin(s, op, value, gasReq, args, call) ==
  [s EXCEPT !.status = "busy", !.signals = <<>>, !.inflight = call,
            !.obs = NewObs(op, value, gasReq, args, s.gasLeft, s.gasRefund,
                           s.contract, Len(s.stack))]

\* A handler's exception, caught by the handler itself or by the dispatcher,
\* ends the call it was setting up.
Abandon(s) == [s EXCEPT !.inflight = NoCall]

CREATE(s, value, offset, length) ==
  LET s0 == Begin(s, "CREATE", value, None, <<>>,
                  NewCall(None, value, None, None, FALSE, offset, length, 0, 0))
      s1 == checkOutOfGas(checkCallMemCost(s0))
  IN  IF s1.trap # NoErr THEN Thrown(Abandon(s1)) ELSE makeCall(s1)

\* The callback CALL gives to stateManager.accountIsEmpty.
emptyCallback(s, a) ==
  LET s1 == IF a.emptyErr THEN Done(s, INTERNAL, None) ELSE s
  IN  IF (~a.exists \/ a.empty) /\ a.value # 0
      THEN LET s2 == subGas([s1 EXCEPT !.obs.surcharge = @ + callNewAccountGas],
                            callNewAccountGas)
           IN  IF s2.trap # NoErr
               THEN Done([s2 EXCEPT !.trap = NoErr], s2.trap, None)
               ELSE s2
      ELSE s1

\* The rest of the exists callback, which follows the call of accountIsEmpty.
callTail(s) ==
  LET s1 == checkOutOfGas(checkCallMemCost(s))
  IN  IF s1.trap # NoErr
      THEN Done(Abandon([s1 EXCEPT !.trap = NoErr]), s1.trap, None)
      ELSE makeCall(addStipend(s1))

NoPending == [pending |-> FALSE, exists |-> TRUE, empty |-> FALSE,
              emptyErr |-> FALSE, value |-> 0]

\* CALL up to its call of stateManager.exists.
CALL(s, gasLimit, toAddress, value, inOffset, inLength, outOffset, outLength) ==
  LET s0 == Begin(s, "CALL", value, Some(gasLimit), <<toAddress>>,
                  NewCall(Some(gasLimit), value, Some(toAddress), None, FALSE,
                          inOffset, inLength, outOffset, outLength))
      s1 == memLoad(s0, inOffset, inLength)
      s2 == IF value # 0 /\ s1.trap = NoErr
            THEN subGas([s1 EXCEPT !.obs.surcharge = callValueTransferGas],
                        callValueTransferGas)
            ELSE s1
  IN  IF s2.trap # NoErr THEN Thrown(Abandon(s2))
      ELSE [s2 EXCEPT !.obs.smCalls = @ + 1, !.inflight.phase = "exists"]

\* The callback CALL gives to stateManager.exists. a: what the state manager
\* answers, and whether it answers accountIsEmpty before it returns
\* ("immediate") or later ("deferred").
existsCallback(s, a) ==
  LET s1 == [s EXCEPT !.obs.smCalls = @ + 1, !.inflight.phase = "setup",
                      !.obs.answer = Some(a)]
      cb == [pending |-> TRUE, exists |-> a.exists, empty |-> a.empty,
             emptyErr |-> a.emptyErr, value |-> s.inflight.value]
  IN  IF a.existsErr THEN Done(Abandon(s), INTERNAL, None)
      ELSE IF a.mode = "immediate" THEN callTail(emptyCallback(s1, cb))
      ELSE callTail([s1 EXCEPT !.pendingEmpty = cb])

\* c: "precompiled" (utils.isPrecompiled(toAddress)), or how the state
\* manager answers getContractCode: "code" or "err".
CALLCODE(s, gas, value, inOffset, inLength, outOffset, outLength, c) ==
  LET s0 == Begin(s, "CALLCODE", value, Some(gas), <<>>,
                  NewCall(Some(gas), value, Some(s.env.address), None, FALSE,
                          inOffset, inLength, outOffset, outLength))
      s1 == IF value # 0
            THEN subGas([s0 EXCEPT !.obs.surcharge = callValueTransferGas],
                        callValueTransferGas)
            ELSE s0
      s2 == checkOutOfGas(checkCallMemCost(s1))
      s3 == addStipend(s2)
      s4 == [s3 EXCEPT !.obs.smCalls = @ + 1]
  IN  IF s2.trap # NoErr THEN Thrown(Abandon(s2))
      ELSE IF c = "precompiled" THEN makeCall(s3)
      ELSE IF c = "err" THEN Done(Abandon(s4), INTERNAL, None)
      ELSE makeCall(s4)

\* c: how the state manager answers getAccount ("errAccount"), whether the
\* target is precompiled, and how it answers getContractCode.
DELEGATECALL(s, gas, inOffset, inLength, outOffset, outLength, c) ==
  LET s0 == Begin(s, "DELEGATECALL", s.env.callValue, Some(gas), <<>>,
                  NewCall(Some(gas), s.env.callValue, Some(s.env.address),
                          Some(s.env.caller), TRUE,
                          inOffset, inLength, outOffset, outLength))
      s1 == checkOutOfGas(checkCallMemCost(s0))
      s2 == [s1 EXCEPT !.obs.smCalls = @ + 1]
      s3 == [s2 EXCEPT !.obs.smCalls = @ + 1]
  IN  IF s1.trap # NoErr THEN Thrown(Abandon(s1))
      ELSE IF c = "errAccount" THEN Done(Abandon(s2), INTERNAL, None)
      ELSE IF c = "precompiled" THEN makeCall(s2)
      ELSE IF c = "errCode" THEN Done(Abandon(s3), INTERNAL, None)
      ELSE makeCall(s3)

\* ---------------------------------------------------------------- storage
\* utils.unpad of a word: its big-endian bytes without the leading zeros
\* (the model's words have at most two significant bytes).
unpad(val) ==
  IF val = 0 THEN <<>>
  ELSE IF val < 256 THEN <<val>>
  ELSE <<val \div 256, val % 256>>

\* new BN(buffer): the big-endian value of the bytes.
RECURSIVE BN(_)
BN(bytes) ==
  IF Len(bytes) = 0 THEN 0
  ELSE 256 * BN(SubSeq(bytes, 1, Len(bytes) - 1)) + bytes[Len(bytes)]

\* Mutant of sstoreCharge: a non-zero value over a non-zero value is charged
\* as a set.
sstoreChargeSetOverSet(s, value, found) ==
  IF Len(value) = 0 /\ Len(found) = 0 THEN subGas(s, sstoreResetGas)
  ELSE IF Len(value) = 0 /\ Len(found) # 0
  THEN LET s1 == subGas(s, sstoreResetGas)
       IN  IF s1.trap # NoErr THEN s1
           ELSE [s1 EXCEPT !.gasRefund = @ + sstoreRefundGas]
  ELSE subGas(s, sstoreSetGas)

\* The gas and refund of SSTORE for the new value and the value found.
sstoreCharge(s, value, found) ==
  IF Len(value) = 0 /\ Len(found) = 0 THEN subGas(s, sstoreResetGas)
  ELSE IF Len(value) = 0 /\ Len(found) # 0
  THEN LET s1 == subGas(s, sstoreResetGas)
       IN  IF s1.trap # NoErr THEN s1
           ELSE [s1 EXCEPT !.gasRefund = @ + sstoreRefundGas]
  ELSE IF Len(value) # 0 /\ Len(found) = 0 THEN subGas(s, sstoreSetGas)
  ELSE subGas(s, sstoreResetGas)

\* a: how the state manager answers: "getErr", "putErr" or "ok".
SSTORE(s, key, val, a) ==
  LET s0 == Begin(s, "SSTORE", 0, None, <<key, val>>, NoCall)
      value == unpad(val)
      found == s.storage[key]
      s1 == [s0 EXCEPT !.obs.smCalls = @ + 1]
      s2 == sstoreCharge([s1 EXCEPT !.obs.found = Some(found)], value, found)
      s3 == [s2 EXCEPT !.obs.smCalls = @ + 1]
  IN  IF a = "getErr" THEN Done(s1, INTERNAL, None)
      ELSE IF s2.trap # NoErr THEN Done([s2 EXCEPT !.trap = NoErr], s2.trap, None)
      ELSE IF a = "putErr" THEN Done(s3, INTERNAL, None)
      ELSE Done([s3 EXCEPT !.storage[key] = value, !.contract = s.cache],
                NoErr, None)

SLOAD(s, key, err) ==
  LET s0 == Begin(s, "SLOAD", 0, None, <<key>>, NoCall)
      s1 == [s0 EXCEPT !.obs.smCalls = @ + 1]
      value == s.storage[key]
  IN  IF err # NoErr THEN Done(s1, err, None)
      ELSE Done(s1, NoErr, Some(IF Len(value) # 0 THEN BN(value) ELSE 0))

\* ---------------------------------------------------------------- memory handlers
\* word.toBuffer('be', 32) of a word below 2^32.
Bytes32(word) ==
  [i \in 1..32 |-> IF i <= 28 THEN 0 ELSE (word \div (256 ^ (32 - i))) % 256]

\* utils.sha3(data), as a checksum of the data.
sha3(data) == (Len(data) * 31 + BN(data)) % 65521

\* runState.callData, runState.code and the code the state manager holds
\* for the address EXTCODECOPY names.
CallData == <<1, 2, 3>>
Code == <<96, 2, 91>>
ExtCode == <<4, 5>>

MLOAD(s, pos) ==
  LET s0 == Begin(s, "MLOAD", 0, None, <<pos, 32>>, NoCall)
      s1 == memLoad(toNumber(s0, pos), pos, 32)
  IN  IF s1.trap # NoErr THEN Thrown(s1)
      ELSE Returned(s1, Some(BN(memLoaded(s1, pos, 32))))

MSTORE(s, offset, word) ==
  LET s0 == Begin(s, "MSTORE", 0, None, <<offset, 32, word>>, NoCall)
      s1 == memStore(toNumber(s0, offset), offset, Bytes32(word), 0, 32, "undefined")
  IN  IF s1.trap # NoErr THEN Thrown(s1) ELSE Returned(s1, None)

\* The handler's first statement reads word, a name it does not declare.
MSTORE8(s, offset, byte) ==
  Thrown(trap(Begin(s, "MSTORE8", 0, None, <<offset, 1, byte>>, NoCall),
              REFERENCE_ERROR))

CALLDATACOPY(s, memOffset, dataOffset, dataLength) ==
  LET s0 == Begin(s, "CALLDATACOPY", 0, None, <<memOffset, dataLength, dataOffset>>, NoCall)
      s1 == memStore(s0, memOffset, CallData, dataOffset, dataLength, "undefined")
      s2 == subGas(s1, copyGas * CeilDiv32(dataLength))
  IN  IF s2.trap # NoErr THEN Thrown(s2) ELSE Returned(s2, None)

CODECOPY(s, memOffset, codeOffset, length) ==
  LET s0 == Begin(s, "CODECOPY", 0, None, <<memOffset, length, codeOffset>>, NoCall)
      s1 == memStore(s0, memOffset, Code, codeOffset, length, "undefined")
      s2 == subGas(s1, copyGas * CeilDiv32(length))
  IN  IF s2.trap # NoErr THEN Thrown(s2) ELSE Returned(s2, None)

\* Mutant of EXTCODECOPY: the handler does not bill the memory itself.
EXTCODECOPYNoBill(s, memOffset, codeOffset, length, err) ==
  LET s0 == Begin(s, "EXTCODECOPY", 0, None, <<memOffset, length, codeOffset>>, NoCall)
      s2 == subGas(s0, copyGas * CeilDiv32(length))
      code == IF err # NoErr THEN <<0>> ELSE ExtCode
      s3 == memStore([s2 EXCEPT !.obs.smCalls = @ + 1],
                     memOffset, code, codeOffset, length, "false")
  IN  IF s2.trap # NoErr THEN Thrown(s2) ELSE Done(s3, err, None)

\* err: what the state manager answers getContractCode with.
EXTCODECOPY(s, memOffset, codeOffset, length, err) ==
  LET s0 == Begin(s, "EXTCODECOPY", 0, None, <<memOffset, length, codeOffset>>, NoCall)
      s1 == subMemUsage(s0, memOffset, length)
      s2 == subGas(s1, copyGas * CeilDiv32(length))
      code == IF err # NoErr THEN <<0>> ELSE ExtCode
      s3 == memStore([s2 EXCEPT !.obs.smCalls = @ + 1],
                     memOffset, code, codeOffset, length, "false")
  IN  IF s2.trap # NoErr THEN Thrown(s2) ELSE Done(s3, err, None)

SHA3(s, offset, length) ==
  LET s0 == Begin(s, "SHA3", 0, None, <<offset, length>>, NoCall)
      s1 == memLoad(toNumber(toNumber(s0, offset), length), offset, length)
      s2 == subGas(s1, sha3WordGas * CeilDiv32(length))
  IN  IF s2.trap # NoErr THEN Thrown(s2)
      ELSE Returned(s2, Some(sha3(memLoaded(s1, offset, length))))

\* topics: the topics popped after the offset and the length.
LOG(s, memOffset, memLength, topics) ==
  LET s0 == Begin(s, "LOG", 0, None, <<memOffset, memLength>>, NoCall)
      s1 == memLoad(s0, memOffset, memLength)
      s2 == subGas(s1, Len(topics) * logTopicGas + memLength * logDataGas)
      log == <<s.env.address, topics, memLoaded(s1, memOffset, memLength)>>
  IN  IF s2.trap # NoErr THEN Thrown(s2)
      ELSE Returned([s2 EXCEPT !.logs = Append(@, log)], None)

RETURN(s, offset, length) ==
  LET s0 == Begin(s, "RETURN", 0, None, <<offset, length>>, NoCall)
      s1 == memLoad(toNumber(toNumber(s0, offset), length), offset, length)
  IN  IF s1.trap # NoErr THEN Thrown(s1)
      ELSE Returned([s1 EXCEPT !.returnValue = memLoaded(s1, offset, length)], None)

\* ---------------------------------------------------------------- selfdestruct
\* The balance the state manager holds for the address a.
Balance(s, a) == IF a = s.env.address THEN s.cache.balance ELSE s.balances[a]

\* stateManager.putAccountBalance(a, b); obs.puts keeps the order of the puts.
putAccountBalance(s, a, b) ==
  LET s1 == [s EXCEPT !.obs.puts = Append(@, <<a, b>>), !.obs.smCalls = @ + 1]
  IN  IF a = s.env.address THEN [s1 EXCEPT !.cache.balance = b]
      ELSE [s1 EXCEPT !.balances[a] = b]

\* Mutant of SELFDESTRUCT: the refund does not look at the set.
SELFDESTRUCTRefundsAgain(s, selfdestructToAddress, a) ==
  LET s0 == Begin(s, "SELFDESTRUCT", 0, None, <<selfdestructToAddress>>, NoCall)
      contractAddress == s.env.address
      toBalance == Balance(s, selfdestructToAddress)
      s1 == [s0 EXCEPT !.obs.smCalls = @ + 1]
      s2 == [s1 EXCEPT !.obs.smCalls = @ + 1]
      s3 == IF s.contract.balance > 0 /\ (~a.exists \/ a.empty)
            THEN subGas([s2 EXCEPT !.obs.surcharge = callNewAccountGas], callNewAccountGas)
            ELSE s2
      s4 == [s3 EXCEPT !.gasRefund = @ + suicideRefundGas,
                       !.sdRefunds[contractAddress] = @ + 1]
      s5 == [s4 EXCEPT !.selfdestruct[contractAddress] = Some(selfdestructToAddress),
                       !.stopped = TRUE]
      newBalance == s.contract.balance + toBalance
      s6 == putAccountBalance(s5, selfdestructToAddress, newBalance)
      s7 == putAccountBalance(s6, contractAddress, 0)
  IN  IF a.getErr THEN Done(s1, INTERNAL, None)
      ELSE IF a.emptyErr THEN Done(s2, INTERNAL, None)
      ELSE IF s3.trap # NoErr THEN Done([s3 EXCEPT !.trap = NoErr], s3.trap, None)
      ELSE IF a.putErr = 1 THEN Done(s6, INTERNAL, None)
      ELSE IF a.putErr = 2 THEN Done(s7, INTERNAL, None)
      ELSE Done(s7, NoErr, None)

\* Mutant of SELFDESTRUCT: the contract's balance is zeroed before the
\* recipient's is set.
SELFDESTRUCTZeroesFirst(s, selfdestructToAddress, a) ==
  LET s0 == Begin(s, "SELFDESTRUCT", 0, None, <<selfdestructToAddress>>, NoCall)
      contractAddress == s.env.address
      toBalance == Balance(s, selfdestructToAddress)
      s1 == [s0 EXCEPT !.obs.smCalls = @ + 1]
      s2 == [s1 EXCEPT !.obs.smCalls = @ + 1]
      s3 == IF s.contract.balance > 0 /\ (~a.exists \/ a.empty)
            THEN subGas([s2 EXCEPT !.obs.surcharge = callNewAccountGas], callNewAccountGas)
            ELSE s2
      s4 == IF s3.selfdestruct[contractAddress] = None
            THEN [s3 EXCEPT !.gasRefund = @ + suicideRefundGas,
                            !.sdRefunds[contractAddress] = @ + 1]
            ELSE s3
      s5 == [s4 EXCEPT !.selfdestruct[contractAddress] = Some(selfdestructToAddress),
                       !.stopped = TRUE]
      newBalance == s.contract.balance + toBalance
      s6 == putAccountBalance(s5, contractAddress, 0)
      s7 == putAccountBalance(s6, selfdestructToAddress, newBalance)
  IN  IF a.getErr THEN Done(s1, INTERNAL, None)
      ELSE IF a.emptyErr THEN Done(s2, INTERNAL, None)
      ELSE IF s3.trap # NoErr THEN Done([s3 EXCEPT !.trap = NoErr], s3.trap, None)
      ELSE IF a.putErr = 1 THEN Done(s6, INTERNAL, None)
      ELSE IF a.putErr = 2 THEN Done(s7, INTERNAL, None)
      ELSE Done(s7, NoErr, None)

\* a: the answers of the state manager: getErr and emptyErr (getAccount and
\* accountIsEmpty fail), exists and empty, and putErr (0: no put fails, 1:
\* the first, 2: the second).
SELFDESTRUCT(s, selfdestructToAddress, a) ==
  LET s0 == Begin(s, "SELFDESTRUCT", 0, None, <<selfdestructToAddress>>, NoCall)
      contractAddress == s.env.address
      toBalance == Balance(s, selfdestructToAddress)
      s1 == [s0 EXCEPT !.obs.smCalls = @ + 1]
      s2 == [s1 EXCEPT !.obs.smCalls = @ + 1]
      s3 == IF s.contract.balance > 0 /\ (~a.exists \/ a.empty)
            THEN subGas([s2 EXCEPT !.obs.surcharge = callNewAccountGas], callNewAccountGas)
            ELSE s2
      s4 == IF s3.selfdestruct[contractAddress] = None
            THEN [s3 EXCEPT !.gasRefund = @ + suicideRefundGas,
                            !.sdRefunds[contractAddress] = @ + 1]
            ELSE s3
      s5 == [s4 EXCEPT !.selfdestruct[contractAddress] = Some(selfdestructToAddress),
                       !.stopped = TRUE]
      newBalance == s.contract.balance + toBalance
      s6 == putAccountBalance(s5, selfdestructToAddress, newBalance)
      s7 == putAccountBalance(s6, contractAddress, 0)
  IN  IF a.getErr THEN Done(s1, INTERNAL, None)
      ELSE IF a.emptyErr THEN Done(s2, INTERNAL, None)
      ELSE IF s3.trap # NoErr THEN Done([s3 EXCEPT !.trap = NoErr], s3.trap, None)
      ELSE IF a.putErr = 1 THEN Done(s6, INTERNAL, None)
      ELSE IF a.putErr = 2 THEN Done(s7, INTERNAL, None)
      ELSE Done(s7, NoErr, None)

\* ---------------------------------------------------------------- flow control
jumpIsValid(s, dest) == dest \in s.validJumps

JUMP(s, dest) ==
  LET s0 == Begin(s, "JUMP", 0, None, <<dest>>, NoCall)
      s1 == toNumber(s0, dest)
      s2 == IF s1.trap = NoErr /\ ~jumpIsValid(s1, dest) THEN trap(s1, INVALID_JUMP) ELSE s1
  IN  IF s2.trap # NoErr THEN Thrown(s2)
      ELSE Returned([s2 EXCEPT !.programCounter = dest], None)

\* c is the destination and i the condition, as the handler names them.
JUMPI(s, c, i) ==
  LET s0 == Begin(s, "JUMPI", 0, None, <<c, i>>, NoCall)
      s1 == toNumber(toNumber(s0, c), i)
      dest == IF i # 0 THEN c ELSE s.programCounter
      s2 == IF s1.trap = NoErr /\ i # 0 /\ ~jumpIsValid(s1, dest)
            THEN trap(s1, INVALID_JUMP) ELSE s1
  IN  IF s2.trap # NoErr THEN Thrown(s2)
      ELSE Returned([s2 EXCEPT !.programCounter = dest], None)

\* ---------------------------------------------------------------- arithmetic
\* The width of a word: 256 in the source, reduced here.
WordBits == 4
TwoPowWord == 2 ^ WordBits
Abs(x) == IF x < 0 THEN 0 - x ELSE x

\* bn.fromTwos(width): a word with its top bit set is the negative number
\* it encodes.
fromTwos(x) == IF x >= TwoPowWord \div 2 THEN x - TwoPowWord ELSE x

\* bn.toTwos(width): a negative number becomes not(|x|) + 1 in width bits, a
\* number that is not negative stays as it is.
toTwos(x) == IF x < 0 THEN (TwoPowWord - 1 - Abs(x)) + 1 ELSE x

\* bn.div for operands of either sign: the quotient truncated toward zero.
div(a, b) ==
  LET q == Abs(a) \div Abs(b)
  IN  IF (a < 0) = (b < 0) THEN q ELSE 0 - q

\* b is decoded, a is divided as the word it is.
SDIV(s, a, b) ==
  LET s0 == Begin(s, "SDIV", 0, None, <<a, b>>, NoCall)
      b1 == fromTwos(b)
  IN  IF b1 = 0 THEN Returned(s0, Some(0))
      ELSE Returned(s0, Some(toTwos(div(a, b1))))

\* ---------------------------------------------------------------- push
\* buffer.slice(start, end) for 0-based indexes: the bytes the buffer has in
\* that range, fewer than end - start when the buffer ends before end.
slice(buffer, start, end) ==
  SubSeq(buffer, start + 1, IF end > Len(buffer) THEN Len(buffer) ELSE end)

\* opCode is runState.opCode, 0x60 .. 0x7f; the dispatcher has moved
\* programCounter past the opcode.
PUSH(s, opCode) ==
  LET numToPush == opCode - 95
      s0 == Begin(s, "PUSH", 0, None, <<numToPush>>, NoCall)
      loaded == BN(slice(Code, s.programCounter, s.programCounter + numToPush))
  IN  Returned([s0 EXCEPT !.programCounter = @ + numToPush], Some(loaded))

\* ---------------------------------------------------------------- stack
\* Mutant of DUP: the test also traps a stack of exactly stackPos items.
DUPNeedsOneMore(s, opCode) ==
  LET stackPos == opCode - 127
      s0 == Begin(s, "DUP", 0, None, <<stackPos>>, NoCall)
  IN  IF stackPos >= Len(s.stack) THEN Thrown(trap(s0, STACK_UNDERFLOW))
      ELSE Returned(s0, Some(s.stack[Len(s.stack) - stackPos + 1]))

\* opCode is runState.opCode, 0x80 .. 0x8f. The stack's top is its last
\* element; the source's index length - stackPos counts from 0.
DUP(s, opCode) ==
  LET stackPos == opCode - 127
      s0 == Begin(s, "DUP", 0, None, <<stackPos>>, NoCall)
  IN  IF stackPos > Len(s.stack) THEN Thrown(trap(s0, STACK_UNDERFLOW))
      ELSE Returned(s0, Some(s.stack[Len(s.stack) - stackPos + 1]))

\* opCode is runState.opCode, 0x90 .. 0x9f. The handler pops the top into
\* the place of the item it returns, and the dispatcher pushes that item.
SWAP(s, opCode) ==
  LET stackPos == opCode - 143
      s0 == Begin(s, "SWAP", 0, None, <<stackPos>>, NoCall)
      swapIndex == Len(s.stack) - stackPos - 1
      newTop == s.stack[swapIndex + 1]
      popped == s.stack[Len(s.stack)]
      rest == SubSeq(s.stack, 1, Len(s.stack) - 1)
  IN  IF swapIndex < 0 THEN Thrown(trap(s0, STACK_UNDERFLOW))
      ELSE Returned([s0 EXCEPT !.stack = [rest EXCEPT ![swapIndex + 1] = popped]],
                    Some(newTop))

\* ---------------------------------------------------------------- inputs
GasChoices == {2, 6400, 10100, 100000}
DepthChoices == {0, stackLimit}
BalanceChoices == {0, 1}
GasLimits == {0, 90000}
Values == {0, 1}
\* inOffset, inLength, outOffset, outLength
MemRanges == {<<0, 0, 0, 0>>, <<0, 32, 32, 2>>}
Keys == {"k1", "k2"}
Words == {0, 66, 258}
Errs == {NoErr, INTERNAL}
\* The addresses CALL is given.
Targets == {TargetAddr, NewAddr}
\* The selfdestruct set the frame starts with: empty, or what the frames
\* before it have entered.
SelfdestructSets ==
  {[a \in Addrs |-> None],
   [a \in Addrs |-> IF a = TargetAddr THEN Some(CallerAddr) ELSE None]}

\* The answers of the state manager to CALL's exists and accountIsEmpty.
CallAnswers ==
  {[existsErr |-> TRUE, exists |-> TRUE, empty |-> FALSE, emptyErr |-> FALSE,
    mode |-> "immediate"],
   [existsErr |-> FALSE, exists |-> TRUE, empty |-> FALSE, emptyErr |-> TRUE,
    mode |-> "immediate"]}
  \cup
  [existsErr : {FALSE}, exists : {TRUE}, empty : BOOLEAN, emptyErr : {FALSE},
   mode : {"immediate", "deferred"}]
  \cup
  {[existsErr |-> FALSE, exists |-> FALSE, empty |-> FALSE, emptyErr |-> FALSE,
    mode |-> "immediate"]}

\* What the child runner may report for the call c.
Payloads ==
  {[logs |-> <<>>, gasRefund |-> 0, return |-> <<>>],
   [logs |-> <<"c1", "c2">>, gasRefund |-> 15000, return |-> <<7, 8, 9>>]}

GasUsedChoices(limit) == IF limit > 0 THEN {0, limit} ELSE {0}

ChildResults(c) ==
  {[gasUsed |-> g, exceptionError |-> e, logs |-> p.logs,
    gasRefund |-> p.gasRefund, return |-> p.return,
    createdAddress |-> IF c.to = None THEN Some(NewAddr) ELSE None,
    vmCreatedAddress |-> v] :
     g \in GasUsedChoices(c.gasLimit[1]), e \in BOOLEAN, p \in Payloads,
     v \in {None, Some(NewAddr)}}

\* The reports the model draws: results.vm carries createdAddress only for
\* a creation that trapped, if at all.
RunnerResults(c) ==
  {r \in ChildResults(c) :
     r.vmCreatedAddress # None => (c.to = None /\ r.exceptionError)}

\* The child's effect on the caller's account in the state manager: a child
\* of CREATE or CALL that did not trap has taken the value.
runCallEffect(s, r) ==
  IF ~r.exceptionError /\ ~s.inflight.delegatecall
     /\ s.inflight.to # Some(s.env.address)
  THEN [s EXCEPT !.cache.balance = @ - s.inflight.value]
  ELSE s

\* ---------------------------------------------------------------- actions
Init ==
  /\ gasLeft \in GasChoices
  /\ gasRefund = 0
  /\ memory = <<>>
  /\ memoryWordCount = 0
  /\ highestMemCost = 0
  /\ stack = <<>>
  /\ logs = <<>>
  /\ contract \in [balance : BalanceChoices, nonce : {0}]
  /\ depth \in DepthChoices
  /\ cache = contract
  /\ storage = [k \in Keys |-> IF k = "k1" THEN <<66>> ELSE <<>>]
  /\ status = "idle"
  /\ inflight = NoCall
  /\ pendingEmpty = NoPending
  /\ signals = <<>>
  /\ obs = NewObs("none", 0, None, <<>>, gasLeft, 0, contract, 0)
  /\ env = [address |-> SelfAddr, caller |-> CallerAddr, origin |-> CallerAddr,
            callValue |-> 1, gasPrice |-> 5, block |-> "block"]
  /\ steps = 0
  /\ programCounter = 1
  /\ validJumps = {}
  /\ stopped = FALSE
  /\ returnValue = <<>>
  /\ selfdestruct \in SelfdestructSets
  /\ balances = [a \in Addrs |-> 0]
  /\ accessed = 0
  /\ sdRefunds = [a \in Addrs |-> 0]

\* The dispatcher starts a handler when the frame runs and nothing of the
\* handler before it is outstanding.
Running ==
  /\ status = "idle"
  /\ ~stopped
  /\ inflight.phase = "none"
  /\ ~pendingEmpty.pending

Ready == Running /\ steps < MaxSteps

DoCREATE ==
  /\ Ready
  /\ \E value \in Values, m \in MemRanges :
       Commit(CREATE(Cur, value, m[1], m[2]))
  /\ steps' = steps + 1

DoCALL ==
  /\ Ready
  /\ \E gasLimit \in GasLimits, toAddress \in Targets, value \in Values,
        m \in MemRanges :
       Commit(CALL(Cur, gasLimit, toAddress, value, m[1], m[2], m[3], m[4]))
  /\ steps' = steps + 1

\* The state manager answers the exists of CALL.
ExistsReturns ==
  /\ inflight.phase = "exists"
  /\ \E a \in CallAnswers : Commit(existsCallback(Cur, a))
  /\ UNCHANGED steps

DoCALLCODE ==
  /\ Ready
  /\ \E gas \in GasLimits, value \in Values, m \in MemRanges,
        c \in {"precompiled", "code", "err"} :
       Commit(CALLCODE(Cur, gas, value, m[1], m[2], m[3], m[4], c))
  /\ steps' = steps + 1

DoDELEGATECALL ==
  /\ Ready
  /\ \E gas \in GasLimits, m \in MemRanges,
        c \in {"errAccount", "precompiled", "errCode", "code"} :
       Commit(DELEGATECALL(Cur, gas, m[1], m[2], m[3], m[4], c))
  /\ steps' = steps + 1

DoSSTORE ==
  /\ Ready
  /\ \E key \in Keys, val \in Words, a \in {"getErr", "putErr", "ok"} :
       Commit(SSTORE(Cur, key, val, a))
  /\ steps' = steps + 1

DoSLOAD ==
  /\ Ready
  /\ \E key \in Keys, err \in Errs : Commit(SLOAD(Cur, key, err))
  /\ steps' = steps + 1

\* The state manager answers the accountIsEmpty it had deferred.
EmptyReturns ==
  /\ pendingEmpty.pending
  /\ Commit(emptyCallback([Cur EXCEPT !.pendingEmpty = NoPending], pendingEmpty))
  /\ UNCHANGED steps

\* The child runner reports.
RunCallReturns ==
  /\ inflight.phase = "child"
  /\ \E r \in RunnerResults(inflight) :
       Commit(parseCallResults(runCallEffect(Cur, r), NoErr, r))
  /\ UNCHANGED steps

\* The state manager answers the getAccount of parseCallResults.
GetAccountReturns ==
  /\ inflight.phase = "refresh"
  /\ \E err \in Errs : Commit(refreshContract(Cur, err, cache))
  /\ UNCHANGED steps

Next ==
  \/ DoCREATE
  \/ DoCALL
  \/ DoCALLCODE
  \/ DoDELEGATECALL
  \/ DoSSTORE
  \/ DoSLOAD
  \/ ExistsReturns
  \/ EmptyReturns
  \/ RunCallReturns
  \/ GetAccountReturns

Spec == Init /\ [][Next]_vars

\* ---------------------------------------------------------------- a frame that jumps
\* The frame as the runner sets it up, before its first instruction.
Fresh ==
  [gasLeft |-> 100000, gasRefund |-> 0, memory |-> <<>>, memoryWordCount |-> 0,
   highestMemCost |-> 0, stack |-> <<>>, logs |-> <<>>,
   contract |-> [balance |-> 1, nonce |-> 0], depth |-> 0,
   cache |-> [balance |-> 1, nonce |-> 0],
   storage |-> [k \in Keys |-> <<>>], status |-> "idle", inflight |-> NoCall,
   pendingEmpty |-> NoPending, signals |-> <<>>,
   obs |-> NewObs("none", 0, None, <<>>, 100000, 0, [balance |-> 1, nonce |-> 0], 0),
   env |-> [address |-> SelfAddr, caller |-> CallerAddr, origin |-> CallerAddr,
            callValue |-> 1, gasPrice |-> 5, block |-> "block"],
   programCounter |-> 1, validJumps |-> {}, stopped |-> FALSE,
   returnValue |-> <<>>, selfdestruct |-> [a \in Addrs |-> None],
   balances |-> [a \in Addrs |-> 0], accessed |-> 0,
   sdRefunds |-> [a \in Addrs |-> 0], trap |-> NoErr]

\* The variables are those of the record s.
Install(s) ==
  /\ gasLeft = s.gasLeft
  /\ gasRefund = s.gasRefund
  /\ memory = s.memory
  /\ memoryWordCount = s.memoryWordCount
  /\ highestMemCost = s.highestMemCost
  /\ stack = s.stack
  /\ logs = s.logs
  /\ contract = s.contract
  /\ depth = s.depth
  /\ cache = s.cache
  /\ storage = s.storage
  /\ status = s.status
  /\ inflight = s.inflight
  /\ pendingEmpty = s.pendingEmpty
  /\ signals = s.signals
  /\ obs = s.obs
  /\ env = s.env
  /\ programCounter = s.programCounter
  /\ validJumps = s.validJumps
  /\ stopped = s.stopped
  /\ returnValue = s.returnValue
  /\ selfdestruct = s.selfdestruct
  /\ balances = s.balances
  /\ accessed = s.accessed
  /\ sdRefunds = s.sdRefunds
  /\ steps = 0

\* Number of jump instructions in one behaviour.
MaxJumps == 2

\* Destinations and conditions popped from the stack: words of up to 256
\* bits, among them one that is no safe integer.
Dests == {2, 5, 7, MAX_INT + 1}
Conds == {0, 1, MAX_INT + 1}
JumpTables == {{2}, {2, 7}}

InitJump ==
  \E vj \in JumpTables, pc \in {1, 3} :
    Install([Fresh EXCEPT !.validJumps = vj, !.programCounter = pc])

DoJUMP ==
  /\ Running
  /\ steps < MaxJumps
  /\ \E dest \in Dests : Commit(JUMP(Cur, dest))
  /\ steps' = steps + 1

DoJUMPI ==
  /\ Running
  /\ steps < MaxJumps
  /\ \E c \in Dests, i \in Conds : Commit(JUMPI(Cur, c, i))
  /\ steps' = steps + 1

NextJump == DoJUMP \/ DoJUMPI

SpecJump == InitJump /\ [][NextJump]_vars

\* ---------------------------------------------------------------- a frame that uses memory
\* Number of memory-touching instructions in one behaviour.
MaxMemSteps == 2

\* An offset far enough for the quadratic part of the memory cost: a read
\* of 32 bytes there needs 24 words.
FarOffset == 736

InitMem == \E g \in {7, 100000} : Install([Fresh EXCEPT !.gasLeft = g])

MemReady == Running /\ steps < MaxMemSteps

DoMLOAD ==
  /\ MemReady
  /\ \E pos \in {0, 1, FarOffset} : Commit(MLOAD(Cur, pos))
  /\ steps' = steps + 1

DoMSTORE ==
  /\ MemReady
  /\ \E offset \in {0, 1}, word \in {0, 258} : Commit(MSTORE(Cur, offset, word))
  /\ steps' = steps + 1

DoMSTORE8 ==
  /\ MemReady
  /\ \E offset \in {0, 40}, byte \in {7} : Commit(MSTORE8(Cur, offset, byte))
  /\ steps' = steps + 1

DoCALLDATACOPY ==
  /\ MemReady
  /\ \E memOffset \in {30, 70}, dataOffset \in {0, 2}, dataLength \in {0, 3} :
       Commit(CALLDATACOPY(Cur, memOffset, dataOffset, dataLength))
  /\ steps' = steps + 1

DoCODECOPY ==
  /\ MemReady
  /\ \E memOffset \in {30}, codeOffset \in {1}, length \in {0, 3} :
       Commit(CODECOPY(Cur, memOffset, codeOffset, length))
  /\ steps' = steps + 1

DoEXTCODECOPY ==
  /\ MemReady
  /\ \E memOffset \in {30, 70}, codeOffset \in {0}, length \in {0, 3}, err \in Errs :
       Commit(EXTCODECOPY(Cur, memOffset, codeOffset, length, err))
  /\ steps' = steps + 1

DoSHA3 ==
  /\ MemReady
  /\ \E offset \in {0, 64}, length \in {0, 2} : Commit(SHA3(Cur, offset, length))
  /\ steps' = steps + 1

DoLOG ==
  /\ MemReady
  /\ \E memOffset \in {0, 64}, memLength \in {0, 2}, topics \in {<<>>, <<5>>} :
       Commit(LOG(Cur, memOffset, memLength, topics))
  /\ steps' = steps + 1

DoRETURN ==
  /\ MemReady
  /\ \E offset \in {0, 96}, length \in {0, 32} : Commit(RETURN(Cur, offset, length))
  /\ steps' = steps + 1

\* A call-class instruction with input and output ranges.
DoMemCALLCODE ==
  /\ MemReady
  /\ \E m \in MemRanges :
       Commit(CALLCODE(Cur, 90000, 0, m[1], m[2], m[3], m[4], "precompiled"))
  /\ steps' = steps + 1

NextMem ==
  \/ DoMLOAD
  \/ DoMSTORE
  \/ DoMSTORE8
  \/ DoCALLDATACOPY
  \/ DoCODECOPY
  \/ DoEXTCODECOPY
  \/ DoSHA3
  \/ DoLOG
  \/ DoRETURN
  \/ DoMemCALLCODE
  \/ RunCallReturns
  \/ GetAccountReturns

SpecMem == InitMem /\ [][NextMem]_vars

\* ---------------------------------------------------------------- the frames of a transaction
\* Number of SELFDESTRUCT instructions in one behaviour.
MaxSelfdestructs == 2

\* The answers of the state manager to SELFDESTRUCT.
SdAnswers ==
  {[getErr |-> TRUE, emptyErr |-> FALSE, exists |-> TRUE, empty |-> FALSE, putErr |-> 0],
   [getErr |-> FALSE, emptyErr |-> TRUE, exists |-> TRUE, empty |-> FALSE, putErr |-> 0]}
  \cup
  {a \in [getErr : {FALSE}, emptyErr : {FALSE}, exists : BOOLEAN, empty : BOOLEAN,
          putErr : {0, 1, 2}] : a.exists \/ ~a.empty}

\* An account with a balance exists and is not empty.
Consistent(s, to, a) == (~a.exists \/ a.empty) => Balance(s, to) = 0

InitSD ==
  \E g \in {100, 100000}, b \in {0, 1}, tb \in {0, 2} :
    Install([Fresh EXCEPT !.gasLeft = g,
                          !.contract.balance = b,
                          !.cache.balance = b,
                          !.balances[TargetAddr] = tb])

DoSELFDESTRUCT ==
  /\ Running
  /\ steps < MaxSelfdestructs
  /\ \E to \in {SelfAddr, TargetAddr, CallerAddr}, a \in SdAnswers :
       /\ Consistent(Cur, to, a)
       /\ Commit(SELFDESTRUCT(Cur, to, a))
  /\ steps' = steps + 1

\* The runner sets up the next frame of the transaction, for the address a
\* and with the gas g: a frame of its own, except for the selfdestruct set,
\* which all the frames share.
NextFrame(s, a, g) ==
  LET account == [balance |-> Balance(s, a), nonce |-> 0]
  IN  [Fresh EXCEPT !.gasLeft = g,
                    !.contract = account,
                    !.cache = account,
                    !.env.address = a,
                    !.balances = [s.balances EXCEPT ![s.env.address] = s.cache.balance],
                    !.obs = NewObs("none", 0, None, <<>>, g, 0, account, 0),
                    !.selfdestruct = s.selfdestruct,
                    !.sdRefunds = s.sdRefunds]

EnterFrame ==
  /\ status # "busy"
  /\ stopped \/ status = "trapped"
  /\ steps < MaxSelfdestructs
  /\ \E a \in {SelfAddr, TargetAddr}, g \in {100, 100000} : Commit(NextFrame(Cur, a, g))
  /\ UNCHANGED steps

NextSD == DoSELFDESTRUCT \/ EnterFrame

SpecSD == InitSD /\ [][NextSD]_vars

\* ================================================================ claims
CallOps == {"CREATE", "CALL", "CALLCODE", "DELEGATECALL"}

\* The 63/64 cap of the glossary: gas_left - floor(gas_left / 64).
Cap(g) == g - (g \div 64)

\* The caller's gas after the memory bills and the surcharges of the handler.
GasAfterBills == obs.gas0 - obs.memBill - obs.surcharge

\* The gas limit the instruction asks for; CREATE asks for all the gas.
Requested == IF obs.gasReq = None THEN GasAfterBills ELSE obs.gasReq[1]

\* C1: whenever a call-class handler has invoked the child runner, the gas
\* limit it handed over (before any stipend) is at most the 63/64 cap of the
\* caller's gas after its memory and surcharge bills; a request above the
\* cap is lowered to exactly the cap, a request at or below it is forwarded
\* unchanged.
C1_SixtyThreeSixtyFourths ==
  (obs.op \in CallOps /\ obs.invoked) =>
    LET cap == Cap(GasAfterBills)
        f == obs.forwarded[1]
    IN  /\ f <= cap
        /\ Requested > cap => f = cap
        /\ Requested <= cap => f = Requested

\* Some signal of the handler reports err.
Signalled(err) == \E i \in DOMAIN signals : signals[i].err = err

\* The handler has completed normally, and has signalled nothing else.
CompletedOnce == signals = <<[kind |-> "cb", err |-> NoErr, result |-> None]>>

\* C2: gas_left is non-negative whenever the frame is between handlers, and
\* a deduction that made it negative ended the handler with an OUT_OF_GAS
\* trap.
C2_GasNonNegative ==
  /\ status = "idle" => gasLeft >= 0
  /\ gasLeft < 0 => (status = "trapped" /\ Signalled(OUT_OF_GAS))

\* The step credits the stipend.
StipendStep ==
  /\ obs'.stipend = callStipend
  /\ steps' # steps \/ obs.stipend = 0

\* C3: no step increases gas_left, except the step of a CALL or CALLCODE
\* with non-zero value that credits callStipend, and that by callStipend at
\* most.
C3_GasMonotonic ==
  [][\/ gasLeft' <= gasLeft
     \/ /\ obs'.op \in {"CALL", "CALLCODE"}
        /\ obs'.value # 0
        /\ StipendStep
        /\ gasLeft' <= gasLeft + callStipend]_vars

\* C3 witness: a CALL with value whose stipend step has raised gas_left by
\* callStipend over what the handler had left after its surcharge.
C3_Witness ==
  /\ obs.op = "CALL"
  /\ obs.value # 0
  /\ obs.memBill = 0
  /\ inflight.phase = "child"
  /\ gasLeft = obs.gas0 - callValueTransferGas + callStipend

\* C4: a CALL or CALLCODE with non-zero value hands the child
\* min(requested, 63/64 cap) + callStipend (exactly callStipend when the
\* request is 0) and credits gas_left exactly callStipend before the child
\* reports; with value 0 neither receives a stipend.
C4_Stipend ==
  (obs.op \in {"CALL", "CALLCODE"} /\ obs.invoked) =>
    LET capped == Min(obs.gasReq[1], Cap(obs.capGas[1]))
    IN  IF obs.value # 0
        THEN /\ obs.childGas[1] = capped + callStipend
             /\ obs.gasReq[1] = 0 => obs.childGas[1] = callStipend
             /\ obs.stipend = callStipend
             /\ inflight.phase = "child" => gasLeft = GasAfterBills + callStipend
        ELSE /\ obs.childGas[1] = capped
             /\ obs.stipend = 0
             /\ inflight.phase = "child" => gasLeft = GasAfterBills

\* The guard of makeCall applies to the instruction of the handler.
GuardCond ==
  /\ obs.op \in CallOps
  /\ \/ depth >= stackLimit
     \/ obs.op # "DELEGATECALL" /\ obs.balance0 < obs.value

\* The handler has pushed exactly one item, a 0.
PushedZero ==
  /\ Len(stack) = obs.stackLen0 + 1
  /\ stack[Len(stack)] = 0

\* The child runner was not invoked, the nonce was not incremented and the
\* contract view was not put into the cache.
NoChildNoWrite ==
  /\ ~obs.invoked
  /\ inflight.phase \notin {"child", "refresh"}
  /\ contract.nonce = obs.nonce0
  /\ obs.cachePuts = 0

\* The handler got as far as makeCall.
ReachedMakeCall == obs.guard \/ obs.invoked

\* Under the guard condition no path of any call-class handler invokes the
\* child, increments the nonce or writes the cache.
GuardNeverSpawns == GuardCond => NoChildNoWrite

\* C5: whenever the guard condition holds for a call-class instruction
\* that gets as far as the guard, exactly one 0 is pushed and the handler
\* completes (once, without error), the child runner is never invoked, the
\* nonce is not incremented and the contract view is not put into the cache.
C5_Guard ==
  (GuardCond /\ ReachedMakeCall /\ status # "busy") =>
    (PushedZero /\ CompletedOnce /\ NoChildNoWrite)

\* C5 for the handlers other than CALL.
C5_GuardButCALL == obs.op # "CALL" => C5_Guard

ChildStep == inflight.phase = "child" /\ inflight'.phase # "child"

\* The step in which getAccount answers parseCallResults.
RefreshStep == inflight.phase = "refresh" /\ inflight'.phase # "refresh"

\* C7: when the child reports, trapped or not, the caller's logs become its
\* logs followed by the child's logs in order, its gas_refund grows by
\* exactly the child's gas_refund and its gas_left shrinks by exactly the
\* child's gas_used; the completion after a child that did not trap leaves
\* the three as merged.
C7_ChildMerge ==
  [][/\ ChildStep =>
          LET r == obs'.results[1]
          IN  /\ logs' = logs \o r.logs
              /\ gasRefund' = gasRefund + r.gasRefund
              /\ gasLeft' = gasLeft - r.gasUsed
     /\ RefreshStep =>
          (logs' = logs /\ gasRefund' = gasRefund /\ gasLeft' = gasLeft)]_vars

\* C7 witness: a child that trapped after using gas, whose two logs and
\* refund are in the caller's frame.
C7_Witness ==
  /\ obs.results # None
  /\ obs.results[1].exceptionError
  /\ obs.results[1].gasUsed > 0
  /\ logs = <<"c1", "c2">>
  /\ gasRefund = obs.refund0 + 15000
  /\ gasLeft = obs.gas0 - obs.memBill - obs.surcharge + obs.stipend
                 - obs.results[1].gasUsed

\* What a call-class handler yields after a child that did not trap.
Yield == IF obs.op = "CREATE" THEN NewAddr ELSE 1

\* C8: a child that trapped makes the handler signal completion without
\* error and with result 0, never traps the caller, and writes no memory;
\* a child that did not trap has min(out_len, length of the return) bytes
\* of its return copied to memory[out_off..] and no other cell changed, and
\* the handler then completes with 1, or with the new address for CREATE.
C8_TrapIsolation ==
  [][/\ (ChildStep /\ obs'.results[1].exceptionError) =>
          /\ signals' = Append(signals, [kind |-> "cb", err |-> NoErr, result |-> <<0>>])
          /\ memory' = memory
          /\ status' = "trapped" => status = "trapped"
          /\ signals = <<>> => (status' = "idle" /\ stack' = Append(stack, 0))
     /\ (ChildStep /\ ~obs'.results[1].exceptionError) =>
          LET r == obs'.results[1]
              off == inflight.outOffset
              n == Min(inflight.outLength, Len(r.return))
          IN  /\ signals' = signals
              /\ stack' = stack
              /\ Len(memory') = IF n > 0 /\ off + n > Len(memory)
                                THEN off + n ELSE Len(memory)
              /\ \A i \in 1..Len(memory') :
                   memory'[i] = IF i > off /\ i <= off + n THEN r.return[i - off]
                                ELSE IF i <= Len(memory) THEN memory[i]
                                ELSE Undefined
     /\ RefreshStep =>
          /\ memory' = memory
          /\ \E err \in {NoErr, INTERNAL} :
               /\ signals' = Append(signals, [kind |-> "cb", err |-> err,
                                              result |-> <<Yield>>])
               /\ (signals = <<>> /\ err = NoErr) =>
                    (status' = "idle" /\ stack' = Append(stack, Yield))]_vars

\* C8 witness: a child with return data trapped, and the caller runs on
\* with the 0 on its stack and its memory untouched.
C8_Witness ==
  /\ obs.results # None
  /\ obs.results[1].exceptionError
  /\ Len(obs.results[1].return) > 0
  /\ status = "idle"
  /\ stack = <<0>>
  /\ memory = <<>>
  /\ signals = <<[kind |-> "cb", err |-> NoErr, result |-> <<0>>]>>

\* C8 witness of the other case: a CREATE whose child did not trap has
\* completed with the new address.
C8_WitnessCreated ==
  /\ obs.op = "CREATE"
  /\ status = "idle"
  /\ stack = <<NewAddr>>

\* When CREATE has passed the guard and the child runs, the nonce has been
\* incremented and the contract view put into the cache.
NonceBeforeChild ==
  (obs.op = "CREATE" /\ inflight.phase = "child") =>
    (contract.nonce = obs.nonce0 + 1 /\ cache = contract /\ obs.cachePuts = 1)

\* C9: when CREATE passes the guard, the nonce is incremented by one and
\* the contract view is put into the cache before the child is invoked; if
\* the child then traps, the nonce after the handler completes is what it
\* was before the CREATE.
C9_CreateNonce ==
  /\ NonceBeforeChild
  /\ (obs.op = "CREATE" /\ obs.results # None /\ obs.results[1].exceptionError
      /\ status # "busy") => contract.nonce = obs.nonce0

\* C9 where the runner's report of the trapped creation carries
\* results.vm.createdAddress.
C9_WithVmCreatedAddress ==
  (obs.results # None /\ obs.results[1].exceptionError
   /\ obs.results[1].vmCreatedAddress = None) \/ C9_CreateNonce

\* The gas SSTORE deducts and the refund it adds, by the claim's schedule.
ScheduleGas(wasSet, isSet) == IF ~wasSet /\ isSet THEN sstoreSetGas ELSE sstoreResetGas
ScheduleRefund(wasSet, isSet) == IF wasSet /\ ~isSet THEN sstoreRefundGas ELSE 0

\* C10: an SSTORE that has read the slot deducts sstoreSetGas exactly when
\* (was_set, is_set) = (false, true) and sstoreResetGas otherwise; unless it
\* ran out of gas it adds sstoreRefundGas to gas_refund exactly when
\* (was_set, is_set) = (true, false); and once it has completed, an SLOAD of
\* the same key pushes the value written (0 after a clear).
C10_SstoreSchedule ==
  (obs.op = "SSTORE" /\ obs.found # None) =>
    LET key == obs.args[1]
        val == obs.args[2]
        wasSet == BN(obs.found[1]) # 0
        isSet == val # 0
    IN  /\ obs.gas0 - gasLeft = ScheduleGas(wasSet, isSet)
        /\ ~Signalled(OUT_OF_GAS) =>
             gasRefund - obs.refund0 = ScheduleRefund(wasSet, isSet)
        /\ CompletedOnce =>
             /\ gasLeft >= 0
             /\ SLOAD(Cur, key, NoErr).stack = Append(stack, val)
             /\ SLOAD(Cur, key, NoErr).signals =
                  <<[kind |-> "cb", err |-> NoErr, result |-> <<val>>]>>

\* C10 witness: the slot held 0x42 and SSTORE(key, 0) has completed, with
\* sstoreResetGas deducted, sstoreRefundGas added and the slot cleared.
C10_Witness ==
  /\ obs.op = "SSTORE"
  /\ CompletedOnce
  /\ obs.found = <<<<66>>>>
  /\ obs.args[2] = 0
  /\ gasLeft = obs.gas0 - sstoreResetGas
  /\ gasRefund = obs.refund0 + sstoreRefundGas
  /\ storage[obs.args[1]] = <<>>

\* The step of a jump instruction, its destination and whether it is taken.
JumpStep == steps' # steps /\ obs'.op \in {"JUMP", "JUMPI"}
JumpDest == obs'.args[1]
JumpTaken == obs'.op = "JUMP" \/ obs'.args[2] # 0

\* The handler started last trapped with err and nothing else happened.
TrappedWith(err) ==
  /\ status = "trapped"
  /\ signals = <<[kind |-> "throw", err |-> err, result |-> None]>>

\* C11: a taken jump sets program_counter to dest if dest is in
\* valid_jumps and otherwise traps INVALID_JUMP with program_counter
\* unchanged; JUMPI with cond = 0 leaves program_counter unchanged and does
\* not trap, whatever dest is; every program_counter a handler sets is in
\* valid_jumps.
C11_JumpSafety ==
  [][JumpStep =>
       /\ (JumpTaken /\ JumpDest \in validJumps) =>
            (programCounter' = JumpDest /\ status' = "idle")
       /\ (JumpTaken /\ JumpDest \notin validJumps) =>
            (programCounter' = programCounter /\ TrappedWith(INVALID_JUMP)')
       /\ ~JumpTaken => (programCounter' = programCounter /\ status' = "idle")
       /\ programCounter' # programCounter => programCounter' \in validJumps]_vars

\* C11 for destinations and conditions that are safe integers.
C11_SafeIntegers ==
  [][(JumpStep /\ \A i \in DOMAIN obs'.args : obs'.args[i] <= MAX_INT) =>
       /\ (JumpTaken /\ JumpDest \in validJumps) =>
            (programCounter' = JumpDest /\ status' = "idle")
       /\ (JumpTaken /\ JumpDest \notin validJumps) =>
            (programCounter' = programCounter /\ TrappedWith(INVALID_JUMP)')
       /\ ~JumpTaken => (programCounter' = programCounter /\ status' = "idle")]_vars

\* Every program_counter a handler sets is in valid_jumps.
JumpTargetsValid ==
  [][programCounter' # programCounter => programCounter' \in validJumps]_vars

\* C12: highest_mem_cost and memory_word_count never decrease, whatever
\* memory-touching handler runs.
C12_MemCostMonotonic ==
  [][highestMemCost' >= highestMemCost /\ memoryWordCount' >= memoryWordCount]_vars

\* C12 witness: after a handler that grew the memory to three words, an MLOAD
\* of the first words has left memory_word_count and highest_mem_cost at
\* what three words cost.
C12_Witness ==
  /\ steps = 2
  /\ obs.op = "MLOAD"
  /\ status = "idle"
  /\ memoryWordCount = 3
  /\ highestMemCost = 3 * memoryGas

\* C13: memory_word_count * 32 is at least one more than every memory index
\* a handler has read or written.
C13_MemoryCoverage == memoryWordCount * 32 >= accessed

\* C13 witness: EXTCODECOPY has written memory[70..72], inside the three
\* words the frame has paid for.
C13_Witness ==
  /\ obs.op = "EXTCODECOPY"
  /\ status = "idle"
  /\ accessed = 73
  /\ Len(memory) = 73
  /\ memoryWordCount = 3

\* C13 witness: the return data of a child was copied to memory[32..33].
C13_WitnessReturnData ==
  /\ obs.op = "CALLCODE"
  /\ status = "idle"
  /\ accessed = 34
  /\ Len(memory) = 34
  /\ memoryWordCount = 2

\* The instructions that write memory; obs.args holds the offset, the
\* length and the word, byte or source offset of the instruction.
WriteOps == {"MSTORE", "MSTORE8", "CALLDATACOPY", "CODECOPY", "EXTCODECOPY"}
WriteOff == obs.args[1]
WriteLen == obs.args[2]

\* The source of a copy instruction.
CopySource ==
  IF obs.op = "CALLDATACOPY" THEN CallData
  ELSE IF obs.op = "CODECOPY" THEN Code
  ELSE ExtCode

\* What a read of the written range returns.
ReadBack == memLoaded(Cur, WriteOff, WriteLen)

\* The read of the written range returns what the instruction was to write:
\* the word, the low byte, or the source bytes followed by zeros.
ReadsWritten ==
  IF obs.op = "MSTORE" THEN BN(ReadBack) = obs.args[3]
  ELSE IF obs.op = "MSTORE8" THEN ReadBack = <<obs.args[3] % 256>>
  ELSE ReadBack = [i \in 1..WriteLen |->
                     IF obs.args[3] + i <= Len(CopySource)
                     THEN CopySource[obs.args[3] + i] ELSE 0]

\* A read beyond the written range returns zero for every cell no store
\* has defined.
ZerosBeyond ==
  \A i \in (WriteOff + WriteLen)..(WriteOff + WriteLen + 32) :
    (i >= Len(memory) \/ memory[i + 1] = Undefined) =>
      memLoaded(Cur, i, 1) = <<0>>

\* C14: a memory write of [off, off+len) with len > 0 that does not run out
\* of gas (and whose state manager does not fail) completes; a read of the
\* range then returns the bytes written, zeros where a copy source was
\* shorter, a read of cells never written beyond it returns zeros, and
\* memory_word_count >= ceil((off+len)/32).
C14_ReadAfterWrite ==
  (obs.op \in WriteOps /\ WriteLen > 0 /\ status # "busy") =>
    \/ TrappedWith(OUT_OF_GAS)
    \/ obs.op = "EXTCODECOPY" /\ Signalled(INTERNAL)
    \/ /\ status = "idle"
       /\ ReadsWritten
       /\ ZerosBeyond
       /\ memoryWordCount >= CeilDiv32(WriteOff + WriteLen)

\* C14 for the writers other than MSTORE8.
C14_ButMSTORE8 == obs.op # "MSTORE8" => C14_ReadAfterWrite

\* An MLOAD that follows an MSTORE at the same offset pushes the word stored.
MloadAfterMstore ==
  [][(/\ obs.op = "MSTORE" /\ status = "idle"
      /\ steps' # steps /\ obs'.op = "MLOAD" /\ status' = "idle"
      /\ obs'.args[1] = obs.args[1])
     => stack' = Append(stack, obs.args[3])]_vars

\* A copy whose source was shorter than the length has completed.
ShortCopyRead ==
  /\ obs.op = "CALLDATACOPY"
  /\ status = "idle"
  /\ obs.args = <<30, 3, 2>>
  /\ ReadBack = <<3, 0, 0>>

\* The step of a SELFDESTRUCT, its recipient, and its normal completion.
SdStep == steps' # steps /\ obs'.op = "SELFDESTRUCT"
SdRecipient == obs'.args[1]
Completed == signals = <<[kind |-> "cb", err |-> NoErr, result |-> None]>>

\* C15: over the frames of a transaction, which share the selfdestruct set,
\* suicideRefundGas is added to gas_refund for the first SELFDESTRUCT of an
\* address and never again for a later one of the same address; every
\* completed SELFDESTRUCT records address -> recipient and sets stopped.
C15_RefundOnce ==
  /\ [](\A a \in Addrs : /\ sdRefunds[a] <= 1
                         /\ selfdestruct[a] # None <=> sdRefunds[a] = 1)
  /\ [][SdStep =>
          /\ selfdestruct[env.address] # None => gasRefund' = gasRefund
          /\ gasRefund' \in {gasRefund, gasRefund + suicideRefundGas}
          /\ Completed' =>
               /\ selfdestruct' = [selfdestruct EXCEPT ![env.address] = Some(SdRecipient)]
               /\ stopped'
               /\ selfdestruct[env.address] = None =>
                    gasRefund' = gasRefund + suicideRefundGas]_vars

\* C15 witness: a second frame of an address that had selfdestructed has
\* completed its SELFDESTRUCT without a refund.
C15_Witness ==
  /\ steps = 2
  /\ obs.op = "SELFDESTRUCT"
  /\ Completed
  /\ stopped
  /\ gasRefund = 0
  /\ sdRefunds[env.address] = 1
  /\ selfdestruct[env.address] = Some(obs.args[1])

\* The balance the state manager holds for a.
BalanceOf(a) == Balance(Cur, a)

\* The balance the state manager holds for a after the step.
BalanceAfter(a) == IF a = env'.address THEN cache'.balance ELSE balances'[a]

\* C16: a completed SELFDESTRUCT has put (recipient's old balance +
\* contract's balance) for the recipient first and 0 for the contract
\* second; the state manager then holds 0 for the contract, and for a
\* recipient other than the contract the sum of the two balances is what
\* it was.
C16_BalanceTransfer ==
  [][(SdStep /\ Completed') =>
       LET self == env.address
           to == SdRecipient
       IN  /\ obs'.puts = << <<to, BalanceOf(to) + contract.balance>>, <<self, 0>> >>
           /\ BalanceAfter(self) = 0
           /\ to # self =>
                /\ BalanceAfter(to) = BalanceOf(to) + contract.balance
                /\ BalanceAfter(to) + BalanceAfter(self) = BalanceOf(to) + BalanceOf(self)
           /\ \A a \in Addrs \ {self, to} : BalanceAfter(a) = BalanceOf(a)]_vars

\* C16 witness: a contract with balance 1 has selfdestructed to a recipient
\* that held 2.
C16_Witness ==
  /\ obs.op = "SELFDESTRUCT"
  /\ Completed
  /\ obs.args[1] = TargetAddr
  /\ env.address = SelfAddr
  /\ obs.puts = << <<TargetAddr, 3>>, <<SelfAddr, 0>> >>
  /\ balances[TargetAddr] = 3
  /\ cache.balance = 0

\* C16 witness of the other case: the recipient is the contract itself.
C16_WitnessSelf ==
  /\ obs.op = "SELFDESTRUCT"
  /\ Completed
  /\ obs.args[1] = env.address
  /\ obs.balance0 = 1
  /\ cache.balance = 0

\* ---------------------------------------------------------------- CALL: out of gas
\* The caller's frame as C17 requires it after the out-of-gas: trapped, no
\* child runner invoked, no stipend credited, nothing pushed.
CallerTrapped ==
  /\ status = "trapped"
  /\ signals[1].err = OUT_OF_GAS
  /\ ~obs.invoked
  /\ obs.stipend = 0
  /\ Len(stack) = obs.stackLen0

\* C17: a CALL that has run out of gas on the memory bill,
\* callValueTransferGas or callNewAccountGas has trapped the caller's frame
\* with OUT_OF_GAS; no child runner was invoked for it, no stipend was
\* credited and nothing was pushed.
C17_CallerOutOfGas ==
  (obs.op = "CALL" /\ Signalled(OUT_OF_GAS)) => CallerTrapped

\* The same for the out-of-gas of the memory bills and of
\* callValueTransferGas alone: callNewAccountGas was not deducted.
C17_ButNewAccount ==
  (/\ obs.op = "CALL"
   /\ Signalled(OUT_OF_GAS)
   /\ obs.surcharge < callNewAccountGas) => CallerTrapped

\* A CALL has run out of gas on callValueTransferGas.
C17_ValueTransferOutOfGas ==
  /\ obs.op = "CALL"
  /\ obs.value # 0
  /\ obs.gas0 < callValueTransferGas
  /\ obs.surcharge = callValueTransferGas
  /\ CallerTrapped

\* ---------------------------------------------------------------- CALL: new account
\* The CALL transfers value to a recipient that does not exist or is empty.
NewAccountDue ==
  /\ obs.op = "CALL"
  /\ obs.answer # None
  /\ obs.value # 0
  /\ ~obs.answer[1].exists \/ obs.answer[1].empty

\* callNewAccountGas was deducted, and once.
NewAccountCharged == obs.surcharge = callValueTransferGas + callNewAccountGas

\* The cap, if computed, was computed from the gas left after the memory
\* bills and the surcharges.
CapAfterSurcharge ==
  obs.capGas # None => obs.capGas[1] = obs.gas0 - obs.memBill - obs.surcharge

\* C18: for a CALL with non-zero value to a recipient that does not exist
\* or is empty, callNewAccountGas has been deducted, once, when the cap is
\* computed and when the child runner is invoked, whether accountIsEmpty
\* answers immediately or later; with value 0 or a live recipient it is
\* never deducted.
C18_SurchargeOrdering ==
  /\ NewAccountDue =>
       /\ (obs.capGas # None \/ obs.invoked) => NewAccountCharged
       /\ CapAfterSurcharge
       /\ obs.surcharge \in {callValueTransferGas, callValueTransferGas + callNewAccountGas}
  /\ (obs.op = "CALL" /\ ~NewAccountDue) => obs.surcharge \in {0, callValueTransferGas}

\* The same when accountIsEmpty answers before it returns.
C18_Immediate ==
  (obs.op = "CALL" /\ obs.answer # None /\ obs.answer[1].mode = "immediate") =>
     C18_SurchargeOrdering

\* With value 0 or a live recipient callNewAccountGas is never deducted, and
\* it is never deducted twice.
C18_NeverUndue ==
  /\ (obs.op = "CALL" /\ ~NewAccountDue) => obs.surcharge \in {0, callValueTransferGas}
  /\ obs.op = "CALL" =>
       obs.surcharge \in {0, callValueTransferGas, callValueTransferGas + callNewAccountGas}

\* A CALL has paid callNewAccountGas before the cap and invoked the child.
C18_ChargedBeforeCap ==
  /\ NewAccountDue
  /\ NewAccountCharged
  /\ obs.invoked
  /\ obs.capGas = Some(obs.gas0 - obs.memBill - callValueTransferGas - callNewAccountGas)

\* ---------------------------------------------------------------- child configuration
\* The child runner has the call of the handler.
ChildConfigured == inflight.phase = "child" /\ obs.invoked

\* C19: the configuration the child runner is given has caller = the
\* frame's address for CREATE, CALL and CALLCODE and the frame's own caller
\* for DELEGATECALL; value = the popped value, and the frame's call_value
\* for DELEGATECALL; to = the popped target for CALL, the frame's address
\* for CALLCODE and DELEGATECALL and none for CREATE; depth = the frame's
\* depth + 1; origin, gas_price, block and the selfdestruct set are the
\* frame's.
C19_ChildConfiguration ==
  ChildConfigured =>
    LET c == inflight
    IN  /\ obs.op \in {"CREATE", "CALL", "CALLCODE", "DELEGATECALL"}
        /\ obs.op \in {"CREATE", "CALL", "CALLCODE"} =>
             /\ c.caller = Some(env.address)
             /\ c.value = obs.value
        /\ obs.op = "DELEGATECALL" =>
             /\ c.caller = Some(env.caller)
             /\ c.value = env.callValue
        /\ obs.op = "CALL" => c.to = Some(obs.args[1])
        /\ obs.op \in {"CALLCODE", "DELEGATECALL"} => c.to = Some(env.address)
        /\ obs.op = "CREATE" => c.to = None
        /\ c.depth = depth + 1
        /\ c.origin = Some(env.origin)
        /\ c.gasPrice = Some(env.gasPrice)
        /\ c.block = Some(env.block)
        /\ c.selfdestruct = Some(selfdestruct)

\* C19 witness: the child of a DELEGATECALL, in a frame that started with an
\* address in the selfdestruct set.
C19_Witness ==
  /\ ChildConfigured
  /\ obs.op = "DELEGATECALL"
  /\ inflight.caller = Some(CallerAddr)
  /\ inflight.to = Some(SelfAddr)
  /\ inflight.value = 1
  /\ inflight.depth = 1
  /\ inflight.selfdestruct[1][TargetAddr] = Some(CallerAddr)

\* C19 witness: the child of a CALL to the popped target.
C19_WitnessCall ==
  /\ ChildConfigured
  /\ obs.op = "CALL"
  /\ inflight.caller = Some(SelfAddr)
  /\ inflight.to = Some(NewAddr)
  /\ inflight.value = obs.value

\* ---------------------------------------------------------------- a frame that shuffles its stack
MaxStackSteps == 2
MaxStackLen == 3
StackWords == {7, 8, 9}
\* DUP1, DUP2, DUP3, DUP16 and SWAP1, SWAP2, SWAP3, SWAP16.
DupCodes == {128, 129, 130, 143}
SwapCodes == {144, 145, 146, 159}

RECURSIVE StacksOf(_)
StacksOf(n) ==
  IF n = 0 THEN {<<>>}
  ELSE StacksOf(n - 1) \cup
       {Append(st, w) : st \in {x \in StacksOf(n - 1) : Len(x) = n - 1}, w \in StackWords}

InitStack == \E st \in StacksOf(MaxStackLen) : Install([Fresh EXCEPT !.stack = st])

DoDUP ==
  /\ Running
  /\ steps < MaxStackSteps
  /\ \E opCode \in DupCodes : Commit(DUP(Cur, opCode))
  /\ steps' = steps + 1

DoSWAP ==
  /\ Running
  /\ steps < MaxStackSteps
  /\ \E opCode \in SwapCodes : Commit(SWAP(Cur, opCode))
  /\ steps' = steps + 1

NextStack == DoDUP \/ DoSWAP

SpecStack == InitStack /\ [][NextStack]_vars

\* The step is the instruction op; its n is obs'.args[1].
StackStep(op) == steps' # steps /\ obs'.op = op

\* The frame has trapped with a stack underflow.
Underflow == TrappedWith(STACK_UNDERFLOW)

\* C20: with at least n items DUPn puts a copy of the n-th item from the
\* top on the stack and leaves the items below as they were; with at least
\* n + 1 items SWAPn exchanges the top and the (n+1)-th item from the top
\* and leaves the length and every other item as they were; with fewer
\* items each traps STACK_UNDERFLOW and leaves the stack as it was.
C20_DupSwap ==
  [][LET n == obs'.args[1]
         len == Len(stack)
     IN  /\ StackStep("DUP") =>
              IF len >= n
              THEN /\ status' = "idle"
                   /\ stack' = Append(stack, stack[len - n + 1])
              ELSE Underflow' /\ stack' = stack
         /\ StackStep("SWAP") =>
              IF len >= n + 1
              THEN /\ status' = "idle"
                   /\ Len(stack') = len
                   /\ stack'[len] = stack[len - n]
                   /\ stack'[len - n] = stack[len]
                   /\ \A i \in 1..len : i \notin {len, len - n} => stack'[i] = stack[i]
              ELSE Underflow' /\ stack' = stack]_vars

\* C20 witness: a SWAP2 of the second step has exchanged 8 and 7, as after
\* DUP1 and SWAP2 on the stack <<8, 7>>.
C20_Witness ==
  /\ steps = 2
  /\ obs.op = "SWAP"
  /\ obs.args = <<2>>
  /\ status = "idle"
  /\ stack = <<7, 7, 8>>

\* C20 witness of the trap: DUP3 on a stack of two items.
C20_WitnessUnderflow ==
  /\ obs.op = "DUP"
  /\ obs.args = <<3>>
  /\ obs.stackLen0 = 2
  /\ Underflow
  /\ stack = <<7, 8>>

\* ---------------------------------------------------------------- a frame that pushes
MaxPushSteps == 3
\* PUSH1, PUSH2, PUSH3: words of up to three bytes.
PushCodes == {96, 97, 98}

InitPush == \E pc \in 0..Len(Code) : Install([Fresh EXCEPT !.programCounter = pc])

DoPUSH ==
  /\ Running
  /\ steps < MaxPushSteps
  /\ \E opCode \in PushCodes : Commit(PUSH(Cur, opCode))
  /\ steps' = steps + 1

NextPush == DoPUSH

SpecPush == InitPush /\ [][NextPush]_vars

\* The n bytes of code at pc, with zeros where the code has ended.
PaddedCode(pc, n) == [i \in 1..n |-> IF pc + i <= Len(Code) THEN Code[pc + i] ELSE 0]

\* C21: PUSHn puts on the stack the next n bytes of code at program_counter
\* read as a big-endian word, with zeros on the right for the bytes the
\* code does not have, and advances program_counter by n.
C21_Push ==
  [][StackStep("PUSH") =>
       LET n == obs'.args[1]
       IN  /\ status' = "idle"
           /\ stack' = Append(stack, BN(PaddedCode(programCounter, n)))
           /\ programCounter' = programCounter + n]_vars

\* The same for a PUSHn that has its n bytes in the code; and every PUSHn
\* advances program_counter by n.
C21_PushWithinCode ==
  [][StackStep("PUSH") =>
       LET n == obs'.args[1]
       IN  /\ status' = "idle"
           /\ programCounter' = programCounter + n
           /\ Len(stack') = Len(stack) + 1
           /\ programCounter + n <= Len(Code) =>
                stack' = Append(stack, BN(PaddedCode(programCounter, n)))]_vars

\* A PUSH2 of the last byte of the code has pushed that byte's value.
C21_ShortRead ==
  /\ steps = 1
  /\ obs.op = "PUSH"
  /\ obs.args = <<2>>
  /\ programCounter = Len(Code) + 1
  /\ stack = <<Code[Len(Code)]>>

\* ---------------------------------------------------------------- a frame that divides
MaxSdivSteps == 1
\* Every word of the reduced width.
ArithWords == 0..(TwoPowWord - 1)

InitArith == Install(Fresh)

DoSDIV ==
  /\ Running
  /\ steps < MaxSdivSteps
  /\ \E a \in ArithWords, b \in ArithWords : Commit(SDIV(Cur, a, b))
  /\ steps' = steps + 1

NextArith == DoSDIV

SpecArith == InitArith /\ [][NextArith]_vars

\* The two's-complement encoding of the signed quotient of the words a and
\* b, truncated toward zero.
SignedQuotient(a, b) ==
  LET q == div(fromTwos(a), fromTwos(b))
  IN  (q + TwoPowWord) % TwoPowWord

\* The handler has run SDIV(a, b) and the stack's top is what it yielded.
SdivDone == obs.op = "SDIV" /\ status = "idle" /\ Len(stack) = obs.stackLen0 + 1

\* C22: SDIV(a, b) yields 0 when b = 0 and otherwise the quotient of a and
\* b as two's-complement signed values, truncated toward zero and encoded
\* as two's-complement.
C22_Sdiv ==
  obs.op = "SDIV" =>
    /\ SdivDone
    /\ LET a == obs.args[1]
           b == obs.args[2]
       IN  stack[Len(stack)] = IF b = 0 THEN 0 ELSE SignedQuotient(a, b)

\* The same for an a that is not negative, and for a divisor of 0.
C22_ButNegativeDividend ==
  obs.op = "SDIV" =>
    /\ SdivDone
    /\ LET a == obs.args[1]
           b == obs.args[2]
       IN  (b = 0 \/ fromTwos(a) >= 0) =>
             stack[Len(stack)] = IF b = 0 THEN 0 ELSE SignedQuotient(a, b)

\* SDIV of 7 by -2 has yielded -3.
C22_PositiveByNegative ==
  /\ SdivDone
  /\ obs.args = <<7, TwoPowWord - 2>>
  /\ stack = <<TwoPowWord - 3>>

\* ---------------------------------------------------------------- completion
\* The handler has returned control to the dispatcher.
HandlerOver == obs.op # "none" /\ status # "busy"

\* C23: a handler that suspends signals its completion to the dispatcher
\* exactly once on every path, by one callback or one thrown trap: never
\* more than one signal, and one signal when the handler is over.
C23_ExactlyOnce ==
  /\ Len(signals) <= 1
  /\ HandlerOver => Len(signals) = 1

\* The same for every handler other than CALL.
C23_ButCALL == obs.op # "CALL" => C23_ExactlyOnce

\* A CALL has called its completion callback twice: with the error of
\* accountIsEmpty and then from makeCall.
C23_TwoCallbacks ==
  /\ obs.op = "CALL"
  /\ Len(signals) = 2
  /\ signals[1] = [kind |-> "cb", err |-> INTERNAL, result |-> None]
  /\ signals[2].kind = "cb"
  /\ signals[2].err = NoErr

\* ---------------------------------------------------------------- memory cost
\* The total cost of w words of memory.
MemCost(w) == memoryGas * w + (w * w) \div quadCoeffDiv

\* The step is a handler that names the length of its memory range, and
\* the length is 0.
ZeroLengthStep ==
  /\ steps' # steps
  /\ obs'.op \in {"CALLDATACOPY", "CODECOPY", "EXTCODECOPY", "SHA3", "LOG", "RETURN"}
  /\ obs'.args[2] = 0

\* C24: whenever the frame is between handlers, also after a memory
\* expansion that ran out of gas, highest_mem_cost is the cost of
\* memory_word_count words; a handler bills for memory the difference of
\* the new and the previous total; a zero-length access changes neither
\* value and bills nothing.
C24_MemCostFormula ==
  [][/\ status' # "busy" => highestMemCost' = MemCost(memoryWordCount')
     /\ steps' # steps =>
          obs'.memBill = MemCost(memoryWordCount') - MemCost(memoryWordCount)
     /\ ZeroLengthStep =>
          /\ memoryWordCount' = memoryWordCount
          /\ highestMemCost' = highestMemCost
          /\ obs'.memBill = 0]_vars

\* The same, except after an out-of-gas: there the bill of the handler is
\* still the difference of the totals.
C24_ButOutOfGas ==
  [][/\ (status' # "busy" /\ ~Signalled(OUT_OF_GAS)') =>
          highestMemCost' = MemCost(memoryWordCount')
     /\ steps' # steps =>
          obs'.memBill = MemCost(memoryWordCount') - MemCost(memoryWordCount)
     /\ ZeroLengthStep =>
          /\ memoryWordCount' = memoryWordCount
          /\ highestMemCost' = highestMemCost
          /\ obs'.memBill = 0]_vars

\* The memory has grown from 2 words to 24, and the handler was billed the
\* difference, the quadratic part included.
C24_Quadratic ==
  /\ steps = 2
  /\ obs.op = "MLOAD"
  /\ status = "idle"
  /\ memoryWordCount = 24
  /\ highestMemCost = 73
  /\ obs.memBill = 67

====
